---- MODULE Spec2Model ----
(***************************************************************************)
(* The OpenID example application (example/example.py): the users table,   *)
(* the browser sessions, and the request hooks and route handlers that     *)
(* read and write them.  A request is served by a worker thread in two     *)
(* steps: before_request (the user lookup), then the route handler with    *)
(* its commit and the after_request hook.  Requests of different browsers  *)
(* interleave between the two steps; one browser issues its requests one   *)
(* at a time, so its cookie session is read and written by one request at  *)
(* a time.                                                                 *)
(***************************************************************************)
EXTENDS Integers, Sequences, FiniteSets, TLC

\* ------------------------------------------------------------------ bounds

\* The largest primary key the table hands out (a sign-up that would need a
\* larger one is not taken).
MaxId == 2

\* Worker threads of the server and browsers (cookie sessions).
Workers == {"w1", "w2"}
Browsers == {"b1", "b2"}

\* Identity URLs the provider asserts, and the auth_time values of its
\* policy extension.
Identities == {"idA", "idB"}
AuthTimes == {"t1"}

\* Submitted profile forms, name and email as sequences of characters: two
\* that pass the validation, one with an empty name, one with an email
\* without "@".
ProfileForms ==
    { [name |-> <<"n">>, email |-> <<"e", "@", "x">>],
      [name |-> <<"m">>, email |-> <<"@", "y">>],
      [name |-> <<>>, email |-> <<"e", "@", "x">>],
      [name |-> <<"n">>, email |-> <<"e">>] }

\* Values of the openid field of the login form.
OpenidInputs == {<<>>, <<"u">>}

\* Python's None, as the value of a session key or of a column.
None == "None"

\* g.user: None, or one loaded row.
NoUser == <<>>

\* A worker that serves no request.
NoClient == "none"

VARIABLES
    users,       \* the rows of table users: records [id, name, email, openid]
    session,     \* browser -> its cookie session, a dict from keys to values
    pc,          \* worker -> "idle" | "handler"
    client,      \* worker -> the browser whose request it serves
    g_user,      \* worker -> g.user of the request: <<>> (None) or <<row>>
    db_session,  \* worker -> its scoped database session
    resp,        \* the response the last step emitted
    authed,      \* history: browser -> identity URLs its callbacks stored
    deleted      \* history: browser -> it deleted its profile, no callback since

vars == <<users, session, pc, client, g_user, db_session, resp, authed, deleted>>

\* ----------------------------------------------------------- the ORM layer

\* A constructor that stores its first two arguments in each other's column.
User_swapped(name, email, openid) ==
    [kind |-> "add", name |-> email, email |-> name, openid |-> openid]

\* class User: a row built by User(name, email, openid), before its INSERT.
User(name, email, openid) ==
    [kind |-> "add", name |-> name, email |-> email, openid |-> openid]

\* The scoped session registry holds no session for the thread.
removed_session == [open |-> FALSE, identity |-> {}, pending |-> <<>>]

\* The thread's session with rows loaded in its identity map.
loaded_session(rows) == [open |-> TRUE, identity |-> rows, pending |-> <<>>]

\* The primary key of the next INSERT: users.id is an INTEGER PRIMARY KEY
\* of SQLite, the largest id in the table plus one.
next_id(table) ==
    IF table = {} THEN 1
    ELSE (CHOOSE i \in {r.id : r \in table} : \A r \in table : r.id <= i) + 1

\* A query that lost its filter: every row of the table.
filter_by_openid_all(table, v) == table

\* User.query.filter_by(openid=v): the rows whose openid column is v
\* (v = None selects the rows whose column is NULL).
filter_by_openid(table, v) == {r \in table : r.openid = v}

\* .first() of a query: None when no row matches, else one matching row
\* (the query states no order).
first(rows) == IF rows = {} THEN {NoUser} ELSE {<<r>> : r \in rows}

\* One pending change written by a flush.
flush_op(table, op) ==
    CASE op.kind = "add" ->
            table \cup {[id |-> next_id(table), name |-> op.name,
                         email |-> op.email, openid |-> op.openid]}
      [] op.kind = "update" ->
            {IF r.id = op.id
                THEN [r EXCEPT !.name = op.name, !.email = op.email]
                ELSE r : r \in table}
      [] op.kind = "delete" -> {r \in table : r.id # op.id}

\* An UPDATE by primary key that matches no row raises StaleDataError;
\* a DELETE that matches no row only warns.
stale_op(table, op) ==
    op.kind = "update" /\ ~ \E r \in table : r.id = op.id

RECURSIVE flush(_, _)
flush(table, ops) ==
    IF ops = <<>> THEN table
    ELSE flush(flush_op(table, Head(ops)), Tail(ops))

RECURSIVE stale(_, _)
stale(table, ops) ==
    IF ops = <<>> THEN FALSE
    ELSE stale_op(table, Head(ops))
         \/ stale(flush_op(table, Head(ops)), Tail(ops))

\* db_session.add(obj), db_session.delete(obj) and an attribute assignment
\* on a loaded object: each leaves a pending change in the thread's session.
session_add(dbs, obj) ==
    [dbs EXCEPT !.open = TRUE, !.pending = Append(@, obj)]

session_delete(dbs, row) ==
    [dbs EXCEPT !.open = TRUE,
                !.pending = Append(@, [kind |-> "delete", id |-> row.id])]

\* Assigning name and email: no UPDATE is pending when neither changes.
session_set(dbs, row, name, email) ==
    IF name = row.name /\ email = row.email THEN dbs
    ELSE [dbs EXCEPT !.pending =
            Append(@, [kind |-> "update", id |-> row.id,
                       name |-> name, email |-> email])]

\* db_session.commit(): the table after the flush and the commit, or the
\* table as it was when the flush raises and the transaction rolls back.
commit_table(table, dbs) ==
    IF stale(table, dbs.pending) THEN table ELSE flush(table, dbs.pending)

\* The session after commit() or after the rollback: nothing pending, every
\* loaded object expired.
commit_session(dbs) == [open |-> TRUE, identity |-> {}, pending |-> <<>>]

\* ------------------------------------------------- the cookie session dict

has_key(d, k) == k \in DOMAIN d

set_key(d, k, v) == [x \in DOMAIN d \cup {k} |-> IF x = k THEN v ELSE d[x]]

\* A pop that stores None under the key and keeps the key.
pop_key_none(d, k) == [x \in DOMAIN d \cup {k} |-> IF x = k THEN None ELSE d[x]]

\* session.pop(k, None)
pop_key(d, k) == [x \in DOMAIN d \ {k} |-> d[x]]

empty_dict == [x \in {} |-> None]

\* ------------------------------------------------------------- responses

no_response == [kind |-> "none"]

render_template(template, form, flashes) ==
    [kind |-> "render", arg |-> template, form |-> form, flashes |-> flashes]

redirect(url, flashes) ==
    [kind |-> "redirect", arg |-> url, flashes |-> flashes]

\* An abort with the status of a forbidden, not an unauthorized, request.
abort_forbidden(code) == [kind |-> "abort", arg |-> "403"]

abort(code) == [kind |-> "abort", arg |-> code]

\* An exception no handler catches: with DEBUG=True it propagates, and
\* neither the after_request hooks nor the session cookie are processed.
server_error == [kind |-> "error", arg |-> "500"]

\* oid.try_login(...): the redirect to the identity provider.
try_login(openid) == [kind |-> "try_login", arg |-> openid]

\* A check that accepts every non-empty address.
has_at_nonempty(email) == Len(email) > 0

\* "@" in email
has_at(email) == \E i \in 1..Len(email) : email[i] = "@"

\* ------------------------------------------------------------------ init

Init ==
    /\ users = {}
    /\ session = [b \in Browsers |-> empty_dict]
    /\ pc = [w \in Workers |-> "idle"]
    /\ client = [w \in Workers |-> NoClient]
    /\ g_user = [w \in Workers |-> NoUser]
    /\ db_session = [w \in Workers |-> removed_session]
    /\ resp = no_response
    /\ authed = [b \in Browsers |-> {}]
    /\ deleted = [b \in Browsers |-> FALSE]

\* ---------------------------------------------------------------- hooks

\* @app.before_request, for a request of browser b that worker w takes:
\* g.user is None, or the first stored row with the session's openid.
before_request(w, b) ==
    /\ pc[w] = "idle"
    /\ \A v \in Workers : pc[v] = "handler" => client[v] # b
    /\ pc' = [pc EXCEPT ![w] = "handler"]
    /\ client' = [client EXCEPT ![w] = b]
    /\ IF has_key(session[b], "openid")
          THEN \E u \in first(filter_by_openid(users, session[b]["openid"])) :
                  /\ g_user' = [g_user EXCEPT ![w] = u]
                  /\ db_session' = [db_session EXCEPT
                                      ![w] = loaded_session({u[i] : i \in 1..Len(u)})]
          ELSE /\ g_user' = [g_user EXCEPT ![w] = NoUser]
               /\ UNCHANGED db_session
    /\ resp' = no_response
    /\ UNCHANGED <<users, session, authed, deleted>>

\* A hook that returns the response and leaves the session in the registry.
after_request_keep(dbs) == dbs

\* @app.after_request: db_session.remove().
after_request(dbs) == removed_session

\* The end of a request that yields response r: the after_request hook
\* runs and the worker is free again.
respond(w, r, dbs) ==
    /\ resp' = r
    /\ db_session' = [db_session EXCEPT ![w] = after_request(dbs)]
    /\ pc' = [pc EXCEPT ![w] = "idle"]
    /\ g_user' = [g_user EXCEPT ![w] = NoUser]
    /\ client' = [client EXCEPT ![w] = NoClient]

\* The handler raised: no after_request hook runs, the session cookie is
\* not written, and the thread's session stays as the rollback left it.
raise_error(w, dbs) ==
    /\ resp' = server_error
    /\ db_session' = [db_session EXCEPT ![w] = dbs]
    /\ pc' = [pc EXCEPT ![w] = "idle"]
    /\ g_user' = [g_user EXCEPT ![w] = NoUser]
    /\ client' = [client EXCEPT ![w] = NoClient]
    /\ UNCHANGED session

\* ---------------------------------------------------------------- requests

no_form == empty_dict

DeleteForms == {[delete |-> <<"y">>]}

LoginForms == {no_form} \cup {[openid |-> o] : o \in OpenidInputs}

\* The successful OpenID responses handed to the after-login callback.
OpenIDResponses ==
    {[identity_url |-> i, extensions |-> x] :
        i \in Identities,
        x \in {empty_dict} \cup {[pape |-> t] : t \in AuthTimes}}

\* ------------------------------------------------------------------ routes

\* @app.route("/")
index(w) ==
    /\ pc[w] = "handler"
    /\ respond(w, render_template("index.html", no_form, <<>>), db_session[w])
    /\ UNCHANGED <<users, session, authed, deleted>>

\* A login handler that hands every posted openid field to try_login, an
\* empty one included.
login_unchecked(w, method, form) ==
    /\ pc[w] = "handler"
    /\ IF g_user[w] # NoUser
          THEN respond(w, redirect("next_url", <<>>), db_session[w])
          ELSE IF method = "POST" /\ has_key(form, "openid")
                  THEN respond(w, try_login(form["openid"]), db_session[w])
                  ELSE respond(w, render_template("login.html", no_form, <<>>),
                               db_session[w])
    /\ UNCHANGED <<users, session, authed, deleted>>

\* @app.route("/login"), the request not being the provider's return.
login(w, method, form) ==
    /\ pc[w] = "handler"
    /\ IF g_user[w] # NoUser
          THEN respond(w, redirect("next_url", <<>>), db_session[w])
          ELSE IF /\ method = "POST"
                  /\ has_key(form, "openid")
                  /\ Len(form["openid"]) > 0
                  THEN respond(w, try_login(form["openid"]), db_session[w])
                  ELSE respond(w, render_template("login.html", no_form, <<>>),
                               db_session[w])
    /\ UNCHANGED <<users, session, authed, deleted>>

\* @oid.after_login: the callback of a successful OpenID response r, run
\* inside the /login request that carries the provider's return.
create_or_login(w, r) ==
    LET b == client[w]
        s1 == set_key(session[b], "openid", r.identity_url)
        s2 == IF has_key(r.extensions, "pape")
                 THEN set_key(s1, "auth_time", r.extensions["pape"])
                 ELSE s1
    IN  /\ pc[w] = "handler"
        /\ session' = [session EXCEPT ![b] = s2]
        /\ authed' = [authed EXCEPT ![b] = @ \cup {r.identity_url}]
        /\ deleted' = [deleted EXCEPT ![b] = FALSE]
        /\ \E user \in first(filter_by_openid(users, r.identity_url)) :
              IF user # NoUser
                 THEN respond(w, redirect("next_url", <<"Successfully signed in">>),
                              db_session[w])
                 ELSE respond(w, redirect("create_profile", <<>>), db_session[w])
        /\ UNCHANGED users

\* @app.route("/create-profile")
create_profile(w, method, form) ==
    LET b == client[w]
        dbs == session_add(db_session[w],
                           User(form["name"], form["email"], session[b]["openid"]))
    IN  /\ pc[w] = "handler"
        /\ IF g_user[w] # NoUser \/ ~ has_key(session[b], "openid")
              THEN /\ respond(w, redirect("index", <<>>), db_session[w])
                   /\ UNCHANGED users
              ELSE IF method = "POST"
                 THEN IF Len(form["name"]) = 0
                    THEN /\ respond(w, render_template("create_profile.html", no_form,
                                       <<"Error: you have to provide a name">>),
                                    db_session[w])
                         /\ UNCHANGED users
                    ELSE IF ~ has_at(form["email"])
                       THEN /\ respond(w, render_template("create_profile.html", no_form,
                                          <<"Error: you have to enter a valid email address">>),
                                       db_session[w])
                            /\ UNCHANGED users
                       ELSE /\ next_id(users) <= MaxId
                            /\ users' = commit_table(users, dbs)
                            /\ respond(w, redirect("next_url",
                                          <<"Profile successfully created">>),
                                       commit_session(dbs))
                 ELSE /\ respond(w, render_template("create_profile.html", no_form, <<>>),
                                 db_session[w])
                      /\ UNCHANGED users
        /\ UNCHANGED <<session, authed, deleted>>

\* @app.route("/profile")
edit_profile(w, method, form) ==
    LET b == client[w]
        row == g_user[w][1]
        shown == [name |-> row.name, email |-> row.email]
        deleting == session_delete(db_session[w], row)
        editing == session_set(db_session[w], row, form["name"], form["email"])
    IN  /\ pc[w] = "handler"
        /\ IF g_user[w] = NoUser
              THEN /\ respond(w, abort("401"), db_session[w])
                   /\ UNCHANGED <<users, session, deleted>>
              ELSE IF method = "POST"
                 THEN IF has_key(form, "delete")
                    THEN /\ users' = commit_table(users, deleting)
                         /\ session' = [session EXCEPT
                                          ![b] = set_key(@, "openid", None)]
                         /\ deleted' = [deleted EXCEPT ![b] = TRUE]
                         /\ respond(w, redirect("index", <<"Profile deleted">>),
                                    commit_session(deleting))
                    ELSE IF Len(form["name"]) = 0
                       THEN /\ respond(w, render_template("edit_profile.html", form,
                                          <<"Error: you have to provide a name">>),
                                       db_session[w])
                            /\ UNCHANGED <<users, session, deleted>>
                       ELSE IF ~ has_at(form["email"])
                          THEN /\ respond(w, render_template("edit_profile.html", form,
                                             <<"Error: you have to enter a valid email address">>),
                                          db_session[w])
                               /\ UNCHANGED <<users, session, deleted>>
                          ELSE IF stale(users, editing.pending)
                             THEN /\ raise_error(w, commit_session(editing))
                                  /\ UNCHANGED <<users, deleted>>
                             ELSE /\ users' = commit_table(users, editing)
                                  /\ respond(w, redirect("edit_profile",
                                                <<"Profile successfully created">>),
                                             commit_session(editing))
                                  /\ UNCHANGED <<session, deleted>>
                 ELSE /\ respond(w, render_template("edit_profile.html", shown, <<>>),
                                 db_session[w])
                      /\ UNCHANGED <<users, session, deleted>>
        /\ UNCHANGED authed

\* @app.route("/logout")
logout(w) ==
    LET b == client[w]
    IN  /\ pc[w] = "handler"
        /\ session' = [session EXCEPT ![b] = pop_key(@, "openid")]
        /\ respond(w, redirect("next_url", <<"You have been signed out">>),
                   db_session[w])
        /\ UNCHANGED <<users, authed, deleted>>

\* ------------------------------------------------------------ specification

\* One step of the server: worker w of W takes a request of a browser, or
\* runs the handler of the request it serves; R are the OpenID responses
\* the provider returns.
step(W, R) ==
    \E w \in W :
        \/ \E b \in Browsers : before_request(w, b)
        \/ index(w)
        \/ \E form \in LoginForms : login(w, "POST", form)
        \/ login(w, "GET", no_form)
        \/ \E r \in R : create_or_login(w, r)
        \/ \E form \in ProfileForms : create_profile(w, "POST", form)
        \/ create_profile(w, "GET", no_form)
        \/ \E form \in ProfileForms \cup DeleteForms : edit_profile(w, "POST", form)
        \/ edit_profile(w, "GET", no_form)
        \/ logout(w)

\* The responses for one identity, without the policy extension.
PlainResponses ==
    {r \in OpenIDResponses :
        r.identity_url = "idA" /\ ~ has_key(r.extensions, "pape")}

\* Every worker serves requests, concurrently; the browsers sign in with the
\* same identity.
Next == step(Workers, PlainResponses)

Spec == Init /\ [][Next]_vars

\* One worker serves the requests one after the other.
NextSeq == step({"w1"}, OpenIDResponses)

SpecSeq == Init /\ [][NextSeq]_vars

\* ------------------------------------------------------------------ claims

\* The primary keys in use.
ids(table) == {r.id : r \in table}

\* The submitted forms the validation refuses, and those it accepts.
InvalidForms ==
    {f \in ProfileForms :
        Len(f.name) = 0 \/ \A i \in 1..Len(f.email) : f.email[i] # "@"}

ValidForms == ProfileForms \ InvalidForms

ErrorFlashes ==
    { <<"Error: you have to provide a name">>,
      <<"Error: you have to enter a valid email address">> }

\* Response r renders template t again with exactly one error message.
error_render(r, t) ==
    r.kind = "render" /\ r.arg = t /\ r.flashes \in ErrorFlashes

\* The requests to /profile and to /create-profile, as <<method, form>>.
ProfileRequests ==
    {<<"GET", no_form>>} \cup {<<"POST", f>> : f \in ProfileForms \cup DeleteForms}

CreateRequests ==
    {<<"GET", no_form>>} \cup {<<"POST", f>> : f \in ProfileForms}

\* C1: the users table holds at most one row per distinct openid value, in
\* every reachable state, whatever requests of the browsers interleave.
C1_OneRowPerOpenid ==
    \A r1 \in users : \A r2 \in users : r1.openid = r2.openid => r1 = r2

\* C2, as stated: a POST to /create-profile or /profile with an empty name or
\* an email without "@" leaves the users table and the session as they were,
\* and its only effect is one error message and the form rendered again.
C2_InvalidPostOnlyRendersError ==
    [][\A w \in Workers : \A form \in InvalidForms :
          /\ create_profile(w, "POST", form) =>
                /\ users' = users /\ session' = session
                /\ error_render(resp', "create_profile.html")
          /\ edit_profile(w, "POST", form) =>
                /\ users' = users /\ session' = session
                /\ error_render(resp', "edit_profile.html")]_vars

\* C2, amended: such a POST leaves the users table and the session as they
\* were; when it reaches the validation (create-profile: g.user is None and
\* the session has an openid key; profile: g.user is not None) its only
\* effect is one error message and the form rendered again, and otherwise it
\* is answered with the redirect to the index or the 401 of its route.
C2_InvalidPostKeepsState ==
    [][\A w \in Workers : \A form \in InvalidForms :
          /\ create_profile(w, "POST", form) =>
                /\ users' = users /\ session' = session
                /\ IF g_user[w] = NoUser /\ "openid" \in DOMAIN session[client[w]]
                      THEN error_render(resp', "create_profile.html")
                      ELSE resp' = [kind |-> "redirect", arg |-> "index",
                                    flashes |-> <<>>]
          /\ edit_profile(w, "POST", form) =>
                /\ users' = users /\ session' = session
                /\ IF g_user[w] # NoUser
                      THEN error_render(resp', "edit_profile.html")
                      ELSE resp' = [kind |-> "abort", arg |-> "401"]]_vars

\* An invalid POST to /profile of a logged-in session was answered, with a
\* row stored.
C2_Witness ==
    /\ error_render(resp, "edit_profile.html")
    /\ users # {}

\* C3: a request to /profile of a session for which before_request resolved
\* no user ends with a 401 and leaves the users table and the session as
\* they were.
C3_AnonymousProfileIs401 ==
    [][\A w \in Workers :
          \A rq \in ProfileRequests :
             (g_user[w] = NoUser /\ edit_profile(w, rq[1], rq[2])) =>
                /\ resp' = [kind |-> "abort", arg |-> "401"]
                /\ users' = users
                /\ session' = session]_vars

\* A 401 was answered while rows are stored and a session holds an openid.
C3_Witness ==
    /\ resp.kind = "abort"
    /\ users # {}
    /\ \E b \in Browsers : "openid" \in DOMAIN session[b]

\* C4, as stated: at the start of every route handler g.user is None or a
\* row currently stored in the users table whose openid is the value of the
\* session's openid key, and it is None when the session has no such key.
C4_UserIsStoredRowOfSession ==
    \A w \in Workers :
        pc[w] = "handler" =>
            /\ g_user[w] # NoUser =>
                  /\ g_user[w][1] \in users
                  /\ "openid" \in DOMAIN session[client[w]]
                  /\ g_user[w][1].openid = session[client[w]]["openid"]
            /\ "openid" \notin DOMAIN session[client[w]] => g_user[w] = NoUser

\* C4, amended: at the start of every route handler g.user is None or a row
\* whose openid is the value of the session's openid key and that was stored
\* in the users table when before_request looked it up; it is None when the
\* session has no openid key.
C4_UserIsLookedUpRowOfSession ==
    [][\A w \in Workers :
          pc'[w] = "handler" =>
             /\ g_user'[w] # NoUser =>
                   /\ "openid" \in DOMAIN session'[client'[w]]
                   /\ g_user'[w][1].openid = session'[client'[w]]["openid"]
                   /\ pc[w] = "idle" => g_user'[w][1] \in users'
             /\ "openid" \notin DOMAIN session'[client'[w]] =>
                   g_user'[w] = NoUser]_vars

\* A handler starts with a g.user that is no longer a row of the table.
C4_Witness ==
    \E w \in Workers :
        /\ pc[w] = "handler"
        /\ g_user[w] # NoUser
        /\ g_user[w][1] \notin users

\* C5: the after-login callback sets the session's openid to the identity
\* URL of the response, then redirects to the next URL with the message
\* "Successfully signed in" when a stored user has that openid and to
\* /create-profile otherwise; it adds, changes and removes no row.
C5_CallbackSetsOpenidAndRedirects ==
    [][\A w \in Workers : \A r \in OpenIDResponses :
          create_or_login(w, r) =>
             /\ "openid" \in DOMAIN session'[client[w]]
             /\ session'[client[w]]["openid"] = r.identity_url
             /\ users' = users
             /\ IF \E u \in users : u.openid = r.identity_url
                   THEN resp' = [kind |-> "redirect", arg |-> "next_url",
                                 flashes |-> <<"Successfully signed in">>]
                   ELSE resp' = [kind |-> "redirect", arg |-> "create_profile",
                                 flashes |-> <<>>]]_vars

\* A callback signed a session in while a row of another identity is stored.
C5_Witness ==
    /\ resp.kind = "redirect"
    /\ resp.flashes = <<"Successfully signed in">>
    /\ \E b \in Browsers : "auth_time" \in DOMAIN session[b]
    /\ \E r1 \in users : \E r2 \in users : r1.openid # r2.openid

\* C6: a row is added only by a POST to /create-profile with a non-empty
\* name and an email containing "@", of a session that has an openid key and
\* for which before_request found no user; exactly one row is added, with
\* the session's openid value and the submitted name and email.  A request
\* to /create-profile of a logged-in session or of a session without an
\* openid key redirects to the index and adds no row.
C6_RowsAddedOnlyByCreateProfile ==
    [][/\ ids(users') \ ids(users) # {} =>
             \E w \in Workers : \E form \in ValidForms :
                /\ pc[w] = "handler"
                /\ g_user[w] = NoUser
                /\ "openid" \in DOMAIN session[client[w]]
                /\ create_profile(w, "POST", form)
                /\ \E i \in (1..MaxId) \ ids(users) :
                      users' = users \cup
                         {[id |-> i, name |-> form.name, email |-> form.email,
                           openid |-> session[client[w]]["openid"]]}
       /\ \A w \in Workers : \A rq \in CreateRequests :
             ( /\ pc[w] = "handler"
               /\ g_user[w] # NoUser \/ "openid" \notin DOMAIN session[client[w]]
               /\ create_profile(w, rq[1], rq[2]) ) =>
                /\ resp' = [kind |-> "redirect", arg |-> "index", flashes |-> <<>>]
                /\ users' = users]_vars

\* A sign-up added a second row.
C6_Witness ==
    /\ resp.kind = "redirect"
    /\ resp.arg = "next_url"
    /\ resp.flashes = <<"Profile successfully created">>
    /\ Cardinality(users) = 2

\* C7: a request that yields a response (a rendered page, a redirect, the
\* 401 of /profile) ends with the worker's scoped database session removed,
\* and no worker starts a request with an uncommitted change pending.
C7_SessionRemovedAfterResponse ==
    [][\A w \in Workers :
          /\ ( /\ pc[w] = "handler"
               /\ pc'[w] = "idle"
               /\ resp'.kind \in {"render", "redirect", "abort", "try_login"} ) =>
                db_session'[w] = [open |-> FALSE, identity |-> {}, pending |-> <<>>]
          /\ pc'[w] = "idle" => db_session'[w].pending = <<>>]_vars

\* A request that committed a change was answered and every worker is free,
\* its session removed.
C7_Witness ==
    /\ resp.kind = "redirect"
    /\ resp.flashes = <<"Profile successfully created">>
    /\ users # {}
    /\ \A w \in Workers : pc[w] = "idle" /\ ~ db_session[w].open

\* C8: a /profile request shows in its form, changes or deletes only a row
\* whose openid is an identity URL that the same browser session received
\* from an after-login callback.
C8_ProfileTouchesOnlyOwnIdentity ==
    [][\A w \in Workers : \A rq \in ProfileRequests :
          ( /\ pc[w] = "handler"
            /\ g_user[w] # NoUser
            /\ edit_profile(w, rq[1], rq[2]) ) =>
             /\ g_user[w][1].openid \in authed[client[w]]
             /\ \A r \in users \ users' : r.openid \in authed[client[w]]]_vars

\* C9: the openid of every row is an identity URL that some after-login
\* callback stored in a session; no row has a None openid.
C9_RowOpenidIsIssuedIdentity ==
    \A r \in users :
        /\ r.openid # None
        /\ r.openid \in UNION {authed[b] : b \in Browsers}

\* C10: after a session deleted its profile, and until its next after-login
\* callback, every /profile request of it is answered 401 and every
\* /create-profile request of it adds no row.
C10_DeletedStaysUnauthenticated ==
    [][\A w \in Workers :
          (pc[w] = "handler" /\ deleted[client[w]]) =>
             /\ \A rq \in ProfileRequests :
                   edit_profile(w, rq[1], rq[2]) =>
                      resp' = [kind |-> "abort", arg |-> "401"]
             /\ \A rq \in CreateRequests :
                   create_profile(w, rq[1], rq[2]) =>
                      ids(users') \subseteq ids(users)]_vars

\* C11: a request to /logout removes the openid key from the session,
\* logged in or not, and leaves the users table and the other session keys
\* as they were; only an after-login callback of the session brings the key
\* back, and as long as it is missing g.user is None, /profile answers 401
\* and /create-profile redirects to the index without adding a row.
C11_LogoutUntilCallback ==
    [][/\ \A w \in Workers :
             logout(w) =>
                /\ "openid" \notin DOMAIN session'[client[w]]
                /\ \A k \in DOMAIN session[client[w]] \ {"openid"} :
                      /\ k \in DOMAIN session'[client[w]]
                      /\ session'[client[w]][k] = session[client[w]][k]
                /\ users' = users
       /\ \A b \in Browsers :
             ("openid" \notin DOMAIN session[b] /\ "openid" \in DOMAIN session'[b]) =>
                \E w \in Workers : \E r \in OpenIDResponses :
                   client[w] = b /\ create_or_login(w, r)
       /\ \A w \in Workers :
             (pc[w] = "handler" /\ "openid" \notin DOMAIN session[client[w]]) =>
                /\ g_user[w] = NoUser
                /\ \A rq \in ProfileRequests :
                      edit_profile(w, rq[1], rq[2]) =>
                         /\ resp' = [kind |-> "abort", arg |-> "401"]
                         /\ users' = users
                /\ \A rq \in CreateRequests :
                      create_profile(w, rq[1], rq[2]) =>
                         /\ resp' = [kind |-> "redirect", arg |-> "index",
                                     flashes |-> <<>>]
                         /\ users' = users]_vars

\* Every browser signed in, a row is stored, and after the logouts no
\* session holds the openid key; a /profile request was answered 401.
C11_Witness ==
    /\ resp.kind = "abort"
    /\ users # {}
    /\ \A b \in Browsers :
          /\ authed[b] # {}
          /\ ~ deleted[b]
          /\ "openid" \notin DOMAIN session[b]

\* The requests to /login that are not the provider's return.
LoginRequests ==
    {<<"GET", no_form>>} \cup {<<"POST", f>> : f \in LoginForms}

\* The request posts a non-empty openid field.
posts_openid(rq) ==
    /\ rq[1] = "POST"
    /\ "openid" \in DOMAIN rq[2]
    /\ rq[2]["openid"] # <<>>

\* C12: the OpenID handshake is started only by a POST to /login with a
\* non-empty openid field of a session whose g.user is None; a /login
\* request of a logged-in session redirects to the next URL, and a GET or a
\* POST with a missing or empty openid field renders the login form; no
\* /login request changes the session or the users table.
C12_HandshakeOnlyByLoginPost ==
    [][/\ resp'.kind = "try_login" =>
             \E w \in Workers : \E rq \in LoginRequests :
                /\ pc[w] = "handler"
                /\ g_user[w] = NoUser
                /\ posts_openid(rq)
                /\ login(w, rq[1], rq[2])
       /\ \A w \in Workers : \A rq \in LoginRequests :
             login(w, rq[1], rq[2]) =>
                /\ users' = users
                /\ session' = session
                /\ IF g_user[w] # NoUser
                      THEN resp' = [kind |-> "redirect", arg |-> "next_url",
                                    flashes |-> <<>>]
                      ELSE IF posts_openid(rq)
                         THEN resp' = [kind |-> "try_login", arg |-> rq[2]["openid"]]
                         ELSE resp' = [kind |-> "render", arg |-> "login.html",
                                       form |-> no_form, flashes |-> <<>>]]_vars

\* A handshake was started by a session that holds an openid key whose row
\* is gone, while a row is stored.
C12_Witness ==
    /\ resp.kind = "try_login"
    /\ users # {}
    /\ \E b \in Browsers : "openid" \in DOMAIN session[b]

\* C13: a successful edit changes only the name and email of the row
\* resolved as g.user (the row with g.user's id and openid): no row is added
\* or removed, no other row changes, the changed row keeps its id and its
\* openid, and the session is unchanged; the delete action removes no row
\* but the one resolved as g.user.
C13_EditTouchesOnlyOwnRow ==
    [][\A w \in Workers : \A form \in ValidForms \cup DeleteForms :
          ( /\ pc[w] = "handler"
            /\ g_user[w] # NoUser
            /\ edit_profile(w, "POST", form)
            /\ resp'.kind = "redirect" ) =>
             /\ \A r \in users \ users' :
                   r.id = g_user[w][1].id /\ r.openid = g_user[w][1].openid
             /\ "delete" \notin DOMAIN form =>
                   /\ session' = session
                   /\ ids(users') = ids(users)
                   /\ Cardinality(users') = Cardinality(users)
                   /\ \A r \in users : \E r2 \in users' :
                         r2.id = r.id /\ r2.openid = r.openid
             /\ "delete" \in DOMAIN form => users' \subseteq users]_vars

\* C14: an auth_time the session holds is the one the policy extension
\* reported in the callback that set the current openid: a callback leaves
\* an auth_time in the session only when its response reports one, and that
\* one; a logout and a profile deletion leave none.
C14_AuthTimeBelongsToLogin ==
    [][\A w \in Workers :
          /\ \A r \in OpenIDResponses :
                (create_or_login(w, r) /\ "auth_time" \in DOMAIN session'[client[w]]) =>
                   /\ "pape" \in DOMAIN r.extensions
                   /\ session'[client[w]]["auth_time"] = r.extensions["pape"]
          /\ logout(w) => "auth_time" \notin DOMAIN session'[client[w]]
          /\ edit_profile(w, "POST", [delete |-> <<"y">>]) =>
                "auth_time" \notin DOMAIN session'[client[w]]]_vars

====
